---- MODULE Spec2Model ----
(***************************************************************************)
(* Chat backend of examples/chat-streaming: the threads and messages       *)
(* tables (convex/schema.ts), the public mutations and queries of          *)
(* convex/chatStreaming.ts and convex/threads.ts, the scheduled internal   *)
(* action createAgentThreadAndSaveMessage, one step per awaited call, and   *)
(* the attachment matching of the chat UI (ChatContent.tsx).               *)
(*                                                                         *)
(* Strings are sequences of characters, so that length, equality and       *)
(* String.prototype.includes are computed and not assumed.                 *)
(***************************************************************************)
EXTENDS Integers, Sequences, FiniteSets, TLC

(***************************************************************************)
(* Bounds of the model                                                     *)
(***************************************************************************)
MaxThreads == 1
MaxSends == 2
MaxTicks == 1

(***************************************************************************)
(* Inputs                                                                  *)
(***************************************************************************)
Users == {"u1", "u2"}
NoIdentity == "no-identity"
Callers == Users \cup {NoIdentity}

Undefined == "undefined"

\* the arguments of a send: the prompts "", " ", "a" and "ab", the model
\* argument left out (the default) or an identifier that is not enumerated,
\* and no attachment, the image S1 or the document S2
SendArgs ==
    {[prompt |-> << >>, modelId |-> Undefined, attachmentIds |-> << >>],
     [prompt |-> <<" ">>, modelId |-> Undefined, attachmentIds |-> << >>],
     [prompt |-> <<"a">>, modelId |-> "gpt-4o", attachmentIds |-> << >>],
     [prompt |-> <<"a">>, modelId |-> Undefined, attachmentIds |-> <<"S1">>],
     [prompt |-> <<"a", "b">>, modelId |-> Undefined, attachmentIds |-> <<"S2">>]}

StreamKinds == {Undefined, "deltas", "list"}

\* the users who open threads; the other caller sets hold every caller
Creators == {"u1", NoIdentity}

ThreadIdArgs == 1..MaxThreads

(***************************************************************************)
(* State                                                                   *)
(***************************************************************************)
VARIABLES
    now,          \* Date.now(), in milliseconds
    nextId,       \* next document id of the threads table
    threads,      \* table threads: id -> document
    messages,     \* table messages (association records), in insertion order
    tasks,        \* scheduler: the createAgentThreadAndSaveMessage runs
    agentThreads, \* the agent component's threads: agentThreadId -> message list
    result,       \* what the last public call gave its caller
    sidebar,      \* ChatSidebar: the page of threads it is given and its groups
    matcher,      \* a rendered message, the association records and what is shown
    promptBox,    \* PromptInputBox: its attachments, the uploads in flight, the alerts
    storage,      \* file storage: the stored files and the upload URLs handed out
    localStore,   \* the client's query cache and its pending optimistic updates
    router        \* ChatStreaming: the route, the threads query, the active thread

\* the state of the deployment
serverVars == <<now, nextId, threads, messages, tasks, agentThreads, result>>

\* the state of the browser and of file storage
clientVars == <<sidebar, matcher, promptBox, storage, localStore, router>>

vars == <<serverVars, clientVars>>

(***************************************************************************)
(* Strings                                                                 *)
(***************************************************************************)
NewChat == <<"N", "e", "w", " ", "C", "h", "a", "t">>
Ellipsis == <<".", ".", ".">>
FileNote == "\n[File attached: video/mp4]"

\* String.prototype.includes
Includes(s, sub) ==
    \E i \in 0..(Len(s) - Len(sub)) : SubSeq(s, i + 1, i + Len(sub)) = sub

\* String.prototype.substring(0, n)
Substring0(s, n) == SubSeq(s, 1, IF n < Len(s) THEN n ELSE Len(s))

\* String.prototype.trim, as handleSubmit applies it to the input
WhiteSpace == {" ", "\n", "\t"}
RECURSIVE trimStart(_)
trimStart(s) == IF s # << >> /\ Head(s) \in WhiteSpace THEN trimStart(Tail(s)) ELSE s
RECURSIVE trimEnd(_)
trimEnd(s) ==
    IF s # << >> /\ s[Len(s)] \in WhiteSpace THEN trimEnd(SubSeq(s, 1, Len(s) - 1)) ELSE s
trim(s) == trimEnd(trimStart(s))

(***************************************************************************)
(* Validation                                                              *)
(***************************************************************************)
ModelId == {"gpt-4.1", "gpt-4.1-nano", "claude-4-sonnet-20250514",
            "gemini-2.5-pro-preview-06-05", "gemini-2.5-flash-preview-05-20"}
DEFAULT_CHAT_MODEL == "gpt-4.1-nano"

\* modelId = DEFAULT_CHAT_MODEL in the handlers' parameter lists
ModelArg(m) == IF m = Undefined THEN DEFAULT_CHAT_MODEL ELSE m

\* z.string().min(1, "Prompt cannot be empty")
PromptSchema(p) == Len(p) >= 1

\* a parse that accepts every identifier
ModelIdAny(m) == TRUE
\* ModelId.parse
ModelIdParse(m) == m \in ModelId

PromptEmpty == "Prompt cannot be empty"
InvalidEnum == "Invalid enum value"
NotAuthenticated == "Not authenticated"
Unauthorized == "Unauthorized"
Ok == "ok"

\* getUserId
getUserId(caller) == IF caller = NoIdentity THEN NotAuthenticated ELSE Ok

\* authorizeThreadAccess: Ok, or the error it throws
authorizeThreadAccess(caller, t) ==
    IF getUserId(caller) # Ok THEN NotAuthenticated
    ELSE IF t \notin DOMAIN threads \/ threads[t].userId # caller THEN Unauthorized
    ELSE Ok

\* the title of a thread's first message
TitleMax == 50
TitleKeep == 47
TitleOf(p) == IF Len(p) > TitleMax THEN Substring0(p, TitleKeep) \o Ellipsis ELSE p

\* what a call gives its caller: the error thrown or Ok, and the value
\* returned, Void for a handler that returns nothing
Void == [void |-> TRUE]
Result(status, value) == [status |-> status, value |-> value]

(***************************************************************************)
(* Init                                                                    *)
(***************************************************************************)
Tolerance == 5000
\* the clock advances by half the matching tolerance, so that both sides of
\* the tolerance are reached
TickMs == Tolerance \div 2
NoAgentThread == 0

\* the deployment before anything is written
ServerInit ==
    /\ now = TickMs
    /\ nextId = 1
    /\ threads = << >>
    /\ messages = << >>
    /\ tasks = << >>
    /\ agentThreads = << >>
    /\ result = Result("none", Void)

\* the sidebar before it is given a page
NoGroups == [today |-> << >>, last7Days |-> << >>, last30Days |-> << >>, older |-> << >>]
SidebarIdle == [page |-> << >>, now |-> 0, rendered |-> FALSE, grouped |-> NoGroups]

\* the message component before it is given a message
MatcherIdle ==
    [message |-> [role |-> "user", content |-> << >>, _creationTime |-> 0],
     threadAttachments |-> << >>, given |-> << >>,
     first |-> << >>, last |-> << >>, runs |-> 0]

\* the prompt box before a file is offered
PromptBoxIdle == [attachments |-> << >>, uploads |-> << >>, alerts |-> << >>, sent |-> << >>]

\* file storage before an upload
StorageIdle == [files |-> << >>, uploadUrls |-> 0]

\* the query cache before a subscription
LocalStoreIdle ==
    [serverValue |-> [loading |-> TRUE], requests |-> << >>, completed |-> 0,
     wire |-> << >>, pushed |-> [loading |-> TRUE], queries |-> << >>]

\* the router before a route is opened
NoChatId == <<"uuid", 0>>
RouterIdle ==
    [isLoading |-> TRUE, threads |-> [loading |-> TRUE], chatId |-> NoChatId,
     requested |-> NoChatId, activeThreadId |-> 0, opens |-> 0]

Init ==
    /\ ServerInit
    /\ sidebar = SidebarIdle
    /\ matcher = MatcherIdle
    /\ promptBox = PromptBoxIdle
    /\ storage = StorageIdle
    /\ localStore = LocalStoreIdle
    /\ router = RouterIdle

\* time passes
Tick ==
    /\ now + TickMs <= (MaxTicks + 1) * TickMs
    /\ now' = now + TickMs
    /\ UNCHANGED <<nextId, threads, messages, tasks, agentThreads, result, clientVars>>

(***************************************************************************)
(* Public mutations                                                        *)
(***************************************************************************)
createThread(caller) ==
    IF getUserId(caller) # Ok
    THEN /\ result' = Result(NotAuthenticated, Void)
         /\ UNCHANGED <<now, nextId, threads, messages, tasks, agentThreads, clientVars>>
    ELSE /\ nextId <= MaxThreads
         /\ threads' = (nextId :> [userId |-> caller, title |-> NewChat,
                                   updatedAt |-> now,
                                   agentThreadId |-> NoAgentThread]) @@ threads
         /\ nextId' = nextId + 1
         /\ result' = Result(Ok, [id |-> nextId])
         /\ UNCHANGED <<now, messages, tasks, agentThreads, clientVars>>

\* ctx.scheduler.runAfter(0, internal.chatStreaming.createAgentThreadAndSaveMessage, args)
runAfter(t, p, userId, m, a) ==
    Append(tasks, [threadId |-> t, prompt |-> p, userId |-> userId, modelId |-> m,
                   attachmentIds |-> a, pc |-> "scheduled",
                   agentThreadId |-> NoAgentThread])

\* the checks of sendMessage and sendMessageAndUpdateThread, in the order of
\* the code: Ok, or the error thrown
sendChecks(caller, t, p, m) ==
    IF ~PromptSchema(p) THEN PromptEmpty
    ELSE IF ~ModelIdParse(ModelArg(m)) THEN InvalidEnum
    ELSE authorizeThreadAccess(caller, t)

\* the transaction of sendMessage
sendMessageHandler(caller, t, p, m, a) ==
    LET status == sendChecks(caller, t, p, m) IN
    IF status # Ok
    THEN /\ result' = Result(status, Void)
         /\ UNCHANGED <<now, nextId, threads, messages, tasks, agentThreads>>
    ELSE /\ Len(tasks) < MaxSends
         /\ tasks' = runAfter(t, p, caller, ModelArg(m), a)
         /\ result' = Result(Ok, Void)
         /\ UNCHANGED <<now, nextId, threads, messages, agentThreads>>

sendMessage(caller, t, p, m, a) ==
    /\ sendMessageHandler(caller, t, p, m, a)
    /\ UNCHANGED clientVars

sendMessageAndUpdateThread(caller, t, p, isFirstMessage, m, a) ==
    LET status == sendChecks(caller, t, p, m) IN
    IF status # Ok
    THEN /\ result' = Result(status, Void)
         /\ UNCHANGED <<now, nextId, threads, messages, tasks, agentThreads, clientVars>>
    ELSE /\ Len(tasks) < MaxSends
         /\ tasks' = runAfter(t, p, caller, ModelArg(m), a)
         /\ threads' = [threads EXCEPT ![t] =
                IF isFirstMessage
                THEN [@ EXCEPT !.title = TitleOf(p), !.updatedAt = now]
                ELSE [@ EXCEPT !.updatedAt = now]]
         /\ result' = Result(Ok, Void)
         /\ UNCHANGED <<now, nextId, messages, agentThreads, clientVars>>

\* the rows of the messages table with this threadId (index by_threadId)
byThreadId(t) == SelectSeq(messages, LAMBDA row : row.threadId = t)

deleteThread(caller, t) ==
    LET status == authorizeThreadAccess(caller, t) IN
    IF status # Ok
    THEN /\ result' = Result(status, Void)
         /\ UNCHANGED <<now, nextId, threads, messages, tasks, agentThreads, clientVars>>
    ELSE /\ messages' = SelectSeq(messages, LAMBDA row : row.threadId # t)
         /\ threads' = [x \in DOMAIN threads \ {t} |-> threads[x]]
         /\ result' = Result(Ok, Void)
         /\ UNCHANGED <<now, nextId, tasks, agentThreads, clientVars>>

(***************************************************************************)
(* Public queries                                                          *)
(***************************************************************************)
attachmentRow(msg) ==
    [messageBody |-> msg.body, attachments |-> msg.attachments,
     _creationTime |-> msg._creationTime]

\* what getThreadAttachments returns for a thread
threadAttachmentsOf(t) ==
    [i \in 1..Len(byThreadId(t)) |-> attachmentRow(byThreadId(t)[i])]

getThreadAttachmentsChecks(caller, t) == Ok

getThreadAttachments(caller, t) ==
    LET status == getThreadAttachmentsChecks(caller, t) IN
    /\ result' = IF status # Ok
                 THEN Result(status, Void)
                 ELSE Result(Ok, [rows |-> threadAttachmentsOf(t)])
    /\ UNCHANGED <<now, nextId, threads, messages, tasks, agentThreads, clientVars>>

\* a payload of deltas whatever was asked for
emptyStreamsDeltas(kind) == [kind |-> "deltas", deltas |-> << >>]
\* the streams payload when the thread has no agent thread yet
emptyStreams(kind) ==
    IF kind = "deltas" THEN [kind |-> "deltas", deltas |-> << >>]
    ELSE IF kind = "list" THEN [kind |-> "list", messages |-> << >>]
    ELSE [kind |-> "deltas", deltas |-> << >>]

\* agent.syncStreams: the payload of the kind asked for
syncStreams(kind) ==
    IF kind = "list" THEN [kind |-> "list", messages |-> << >>]
    ELSE [kind |-> "deltas", deltas |-> << >>]

\* the authoritative message list of a thread, as listThreadMessages pages it
messageList(t) ==
    IF t \notin DOMAIN threads \/ threads[t].agentThreadId = NoAgentThread
    THEN << >>
    ELSE agentThreads[threads[t].agentThreadId]

listThreadMessages(caller, t, kind) ==
    LET status == authorizeThreadAccess(caller, t) IN
    /\ result' =
         IF status # Ok THEN Result(status, Void)
         ELSE IF threads[t].agentThreadId = NoAgentThread
         THEN Result(Ok,
                     [page |-> << >>, streams |-> emptyStreams(kind)])
         ELSE Result(Ok,
                     [page |-> messageList(t),
                      streams |-> syncStreams(IF kind = Undefined THEN "deltas" ELSE kind)])
    /\ UNCHANGED <<now, nextId, threads, messages, tasks, agentThreads, clientVars>>

(***************************************************************************)
(* The agent component (@convex-dev/agent) and file storage                *)
(***************************************************************************)
\* _storage metadata of the uploaded files
ContentType(storageId) ==
    IF storageId = "S1" THEN "image/png" ELSE "application/pdf"

\* the content block createAgentThreadAndSaveMessage makes of one attachment
contentBlock(storageId) ==
    IF ContentType(storageId) = "image/png"
    THEN [type |-> "image", text |-> << >>]
    ELSE IF ContentType(storageId) = "application/pdf"
    THEN [type |-> "file", text |-> << >>]
    ELSE [type |-> "text", text |-> <<FileNote>>]

\* messageContent: the prompt's text block, then one block per attachment
messageContent(p, a) ==
    <<[type |-> "text", text |-> p]>> \o [i \in 1..Len(a) |-> contentBlock(a[i])]

\* the text of a saved message: its text blocks, joined
RECURSIVE textOf(_)
textOf(blocks) ==
    IF blocks = << >> THEN << >>
    ELSE (IF Head(blocks).type = "text" THEN Head(blocks).text ELSE << >>)
         \o textOf(Tail(blocks))

Reply == <<"r">>

saveMessage(agentThreadId, role, text, i) ==
    [agentThreads EXCEPT ![agentThreadId] =
        Append(@, [role |-> role, content |-> text, _creationTime |-> now, task |-> i])]

(***************************************************************************)
(* createAgentThreadAndSaveMessage, run i of the scheduler                 *)
(***************************************************************************)
\* a test that takes every send to carry attachments
hasAttachmentsAlways(a) == TRUE
\* attachmentIds.length > 0
hasAttachments(a) == Len(a) > 0

\* where the run goes on once it holds its agentThreadId: lines 222-230 run
\* a mutation only when there are attachments
afterLink(i) ==
    IF hasAttachments(tasks[i].attachmentIds) THEN "saveMessageAttachments" ELSE "streamText"

setTask(i, pc, agentThreadId) ==
    [tasks EXCEPT ![i] = [@ EXCEPT !.pc = pc, !.agentThreadId = agentThreadId]]

\* runQuery(getLocalThread), "Local thread not found", let agentThreadId
getLocalThread(i) ==
    /\ tasks[i].pc = "scheduled"
    /\ tasks' =
         IF tasks[i].threadId \notin DOMAIN threads THEN setTask(i, "failed", NoAgentThread)
         ELSE IF threads[tasks[i].threadId].agentThreadId = NoAgentThread
         THEN setTask(i, "createThread", NoAgentThread)
         ELSE setTask(i, afterLink(i), threads[tasks[i].threadId].agentThreadId)
    /\ UNCHANGED <<now, nextId, threads, messages, agentThreads, result, clientVars>>

\* agent.createThread
agentCreateThread(i) ==
    /\ tasks[i].pc = "createThread"
    /\ agentThreads' = Append(agentThreads, << >>)
    /\ tasks' = setTask(i, "updateLocalThreadAgentId", Len(agentThreads) + 1)
    /\ UNCHANGED <<now, nextId, threads, messages, result, clientVars>>

\* runMutation(updateLocalThreadAgentId): db.patch throws when the thread is gone
updateLocalThreadAgentId(i) ==
    /\ tasks[i].pc = "updateLocalThreadAgentId"
    /\ IF tasks[i].threadId \notin DOMAIN threads
       THEN /\ tasks' = setTask(i, "failed", tasks[i].agentThreadId)
            /\ UNCHANGED threads
       ELSE /\ threads' = [threads EXCEPT ![tasks[i].threadId].agentThreadId =
                               tasks[i].agentThreadId]
            /\ tasks' = setTask(i, afterLink(i), tasks[i].agentThreadId)
    /\ UNCHANGED <<now, nextId, messages, agentThreads, result, clientVars>>

\* runMutation(saveMessageAttachments): db.insert("messages", ...)
saveMessageAttachments(i) ==
    /\ tasks[i].pc = "saveMessageAttachments"
    /\ messages' = Append(messages, [threadId |-> tasks[i].threadId,
                                     body |-> tasks[i].prompt,
                                     userId |-> tasks[i].userId,
                                     attachments |-> tasks[i].attachmentIds,
                                     _creationTime |-> now])
    /\ tasks' = setTask(i, "streamText", tasks[i].agentThreadId)
    /\ UNCHANGED <<now, nextId, threads, agentThreads, result, clientVars>>

\* the text of the user message streamText is given
promptText(p, a) == IF hasAttachments(a) THEN textOf(messageContent(p, a)) ELSE p

\* continueThread, thread.streamText: the input message is saved
\* (saveAnyInputMessages) before the model is called
streamTextSaveInput(i) ==
    /\ tasks[i].pc = "streamText"
    /\ agentThreads' = saveMessage(tasks[i].agentThreadId, "user",
                                   promptText(tasks[i].prompt, tasks[i].attachmentIds), i)
    /\ tasks' = setTask(i, "consumeStream", tasks[i].agentThreadId)
    /\ UNCHANGED <<now, nextId, threads, messages, result, clientVars>>

\* result.consumeStream(): the output is saved (saveOutputMessages)
consumeStream(i) ==
    /\ tasks[i].pc = "consumeStream"
    /\ agentThreads' = saveMessage(tasks[i].agentThreadId, "assistant", Reply, i)
    /\ tasks' = setTask(i, "done", tasks[i].agentThreadId)
    /\ UNCHANGED <<now, nextId, threads, messages, result, clientVars>>

\* the model invocation throws
streamThrows(i) ==
    /\ tasks[i].pc = "consumeStream"
    /\ tasks' = setTask(i, "failed", tasks[i].agentThreadId)
    /\ UNCHANGED <<now, nextId, threads, messages, agentThreads, result, clientVars>>

(***************************************************************************)
(* The chat UI: the attachments shown under a rendered message             *)
(***************************************************************************)
\* a component that takes no message for an assistant's
isAssistantNever(message) == FALSE
isAssistant(message) == message.role # "user"

Abs(x) == IF x < 0 THEN -x ELSE x

\* Array.prototype.find with the predicate of the UI: the index of the first
\* record whose messageBody equals the content or is contained in it, or 0
findMatching(message, threadAttachments) ==
    LET hits == {k \in 1..Len(threadAttachments) :
                    \/ threadAttachments[k].messageBody = message.content
                    \/ Includes(message.content, threadAttachments[k].messageBody)}
    IN IF hits = {} THEN 0 ELSE CHOOSE k \in hits : \A j \in hits : k <= j

\* sortedAttachments[0]: the record closest in time, the first of them on a
\* tie since the sort is stable
closest(message, threadAttachments) ==
    LET d(k) == Abs(threadAttachments[k]._creationTime - message._creationTime)
    IN CHOOSE k \in 1..Len(threadAttachments) :
           \A j \in 1..Len(threadAttachments) : d(k) < d(j) \/ (d(k) = d(j) /\ k <= j)

\* a test that accepts a difference of the tolerance itself
isCloseInclusive(message, att) ==
    Abs(att._creationTime - message._creationTime) <= Tolerance
\* Math.abs(closest._creationTime - message._creationTime) < 5000
isClose(message, att) ==
    Abs(att._creationTime - message._creationTime) < Tolerance

\* the useMemo of the message component, with threadAttachments loaded
attachments(message, threadAttachments) ==
    IF message.content = << >> \/ isAssistant(message) THEN << >>
    ELSE LET found == findMatching(message, threadAttachments) IN
         IF found # 0 THEN threadAttachments[found].attachments
         ELSE IF message._creationTime # 0 /\ threadAttachments # << >>
                 /\ isClose(message, threadAttachments[closest(message, threadAttachments)])
         THEN threadAttachments[closest(message, threadAttachments)].attachments
         ELSE << >>

\* what happens whichever mutation the client sends with
Other ==
    \/ Tick
    \/ \E c \in Creators : createThread(c)
    \/ \E c \in Callers, t \in ThreadIdArgs : deleteThread(c, t)
    \/ \E c \in Callers, t \in ThreadIdArgs : getThreadAttachments(c, t)
    \/ \E c \in Callers, t \in ThreadIdArgs, k \in StreamKinds :
          listThreadMessages(c, t, k)
    \/ \E i \in 1..Len(tasks) : getLocalThread(i)
    \/ \E i \in 1..Len(tasks) : agentCreateThread(i)
    \/ \E i \in 1..Len(tasks) : updateLocalThreadAgentId(i)
    \/ \E i \in 1..Len(tasks) : saveMessageAttachments(i)
    \/ \E i \in 1..Len(tasks) : streamTextSaveInput(i)
    \/ \E i \in 1..Len(tasks) : consumeStream(i)
    \/ \E i \in 1..Len(tasks) : streamThrows(i)


\* the client sends with sendMessage (ChatContent.tsx)
Next ==
    \/ \E c \in Callers, t \in ThreadIdArgs, s \in SendArgs :
          sendMessage(c, t, s.prompt, s.modelId, s.attachmentIds)
    \/ Other

Spec == Init /\ [][Next]_vars

\* the client sends with sendMessageAndUpdateThread
NextUpdate ==
    \/ \E c \in Callers, t \in ThreadIdArgs, s \in SendArgs, f \in BOOLEAN :
          sendMessageAndUpdateThread(c, t, s.prompt, f, s.modelId, s.attachmentIds)
    \/ Other

SpecUpdate == Init /\ [][NextUpdate]_vars

(***************************************************************************)
(* ChatSidebar: the threads grouped by time                                *)
(*                                                                         *)
(* The sidebar's timestamps are counted in minutes: the milliseconds of    *)
(* Date are beyond the integers of the model checker.                      *)
(***************************************************************************)
MaxPage == 2
MinutesPerDay == 1440
MinutesPerWeek == 10080
MinutesPerMonth == 43200

\* new Date(now.getFullYear(), now.getMonth(), now.getDate()): midnight
todayOf(t) == t - (t % MinutesPerDay)
last7DaysOf(t) == todayOf(t) - MinutesPerWeek
last30DaysOf(t) == todayOf(t) - MinutesPerMonth

\* the clock of the browser when the sidebar renders: a midnight and a noon
SidebarNows == {100 * MinutesPerDay, 100 * MinutesPerDay + 720}

\* updatedAt of a thread: on each boundary, just before it, and in the future
UpdatedAts(t) ==
    {t + 5, todayOf(t), todayOf(t) - 1, last7DaysOf(t), last7DaysOf(t) - 1,
     last30DaysOf(t), last30DaysOf(t) - 1}

\* the pages of threads: thread k of a page has the _id k
Pages(t) ==
    UNION {{[k \in 1..n |-> [_id |-> k, updatedAt |-> f[k]]] :
               f \in [1..n -> UpdatedAts(t)]} : n \in 0..MaxPage}

\* a reducer without the else branches: every bucket whose test passes
placeEvery(groups, thread, t) ==
    [today |-> IF thread.updatedAt >= todayOf(t)
               THEN Append(groups.today, thread) ELSE groups.today,
     last7Days |-> IF thread.updatedAt >= last7DaysOf(t)
                   THEN Append(groups.last7Days, thread) ELSE groups.last7Days,
     last30Days |-> IF thread.updatedAt >= last30DaysOf(t)
                    THEN Append(groups.last30Days, thread) ELSE groups.last30Days,
     older |-> IF thread.updatedAt < last30DaysOf(t)
               THEN Append(groups.older, thread) ELSE groups.older]
\* a reducer that puts each thread at the head of its bucket
placeFirst(groups, thread, t) ==
    IF thread.updatedAt >= todayOf(t)
    THEN [groups EXCEPT !.today = <<thread>> \o @]
    ELSE IF thread.updatedAt >= last7DaysOf(t)
    THEN [groups EXCEPT !.last7Days = <<thread>> \o @]
    ELSE IF thread.updatedAt >= last30DaysOf(t)
    THEN [groups EXCEPT !.last30Days = <<thread>> \o @]
    ELSE [groups EXCEPT !.older = <<thread>> \o @]
\* the reducer of groupThreadsByTime
place(groups, thread, t) ==
    IF thread.updatedAt >= todayOf(t)
    THEN [groups EXCEPT !.today = Append(@, thread)]
    ELSE IF thread.updatedAt >= last7DaysOf(t)
    THEN [groups EXCEPT !.last7Days = Append(@, thread)]
    ELSE IF thread.updatedAt >= last30DaysOf(t)
    THEN [groups EXCEPT !.last30Days = Append(@, thread)]
    ELSE [groups EXCEPT !.older = Append(@, thread)]

\* threads.reduce(reducer, {today: [], last7Days: [], last30Days: [], older: []})
RECURSIVE reduce(_, _, _)
reduce(page, groups, t) ==
    IF page = << >> THEN groups
    ELSE reduce(Tail(page), place(groups, Head(page), t), t)

groupThreadsByTime(page, t) == reduce(page, NoGroups, t)

\* the sidebar renders the page it was given
ChatSidebarRender ==
    /\ ~sidebar.rendered
    /\ sidebar' = [sidebar EXCEPT !.rendered = TRUE,
                                  !.grouped = groupThreadsByTime(sidebar.page, sidebar.now)]
    /\ UNCHANGED <<serverVars, matcher, promptBox, storage, localStore, router>>

\* the page changes and the sidebar renders again
ChatSidebarUpdate ==
    /\ sidebar.rendered
    /\ \E p \in Pages(sidebar.now) :
          /\ p # sidebar.page
          /\ sidebar' = [sidebar EXCEPT !.page = p,
                                        !.grouped = groupThreadsByTime(p, sidebar.now)]
    /\ UNCHANGED <<serverVars, matcher, promptBox, storage, localStore, router>>

InitSidebar ==
    /\ ServerInit
    /\ \E t \in SidebarNows : \E p \in Pages(t) :
          sidebar = [page |-> p, now |-> t, rendered |-> FALSE, grouped |-> NoGroups]
    /\ matcher = MatcherIdle
    /\ promptBox = PromptBoxIdle
    /\ storage = StorageIdle
    /\ localStore = LocalStoreIdle
    /\ router = RouterIdle

NextSidebar == ChatSidebarRender \/ ChatSidebarUpdate

SpecSidebar == InitSidebar /\ [][NextSidebar]_vars

(***************************************************************************)
(* The message component: matching run on given inputs                     *)
(***************************************************************************)
MaxRows == 2
MaxRuns == 2

\* the distance in time of a record from the message
distance(message, att) == Abs(att._creationTime - message._creationTime)

\* Array.prototype.sort by distance, stable: insertion into a sorted list
RECURSIVE insertSorted(_, _, _)
insertSorted(message, att, sorted) ==
    IF sorted = << >> THEN <<att>>
    ELSE IF distance(message, att) < distance(message, Head(sorted))
    THEN <<att>> \o sorted
    ELSE <<Head(sorted)>> \o insertSorted(message, att, Tail(sorted))

RECURSIVE sortedAttachments(_, _)
sortedAttachments(message, list) ==
    IF list = << >> THEN << >>
    ELSE insertSorted(message, list[Len(list)],
                      sortedAttachments(message, SubSeq(list, 1, Len(list) - 1)))

\* a sort of the array itself, where the code sorts
sortInPlace(message, threadAttachments) ==
    IF findMatching(message, threadAttachments) = 0 /\ message._creationTime # 0
    THEN sortedAttachments(message, threadAttachments)
    ELSE threadAttachments
\* the array the component was given, after the matching has run: the code
\* sorts the copy [...threadAttachments]
afterMatching(message, threadAttachments) == threadAttachments

\* the messages and the association records the matching is run on
MatcherMessages ==
    {[role |-> r, content |-> c, _creationTime |-> t] :
        r \in {"user", "assistant", "tool"},
        c \in {<< >>, <<"a">>, <<"a", "b">>, <<"c">>},
        t \in {0, TickMs, 2 * Tolerance - TickMs}}

MatcherRows ==
    {[messageBody |-> b, attachments |-> <<a>>, _creationTime |-> t] :
        b \in {<<"a">>, <<"b">>, <<"a", "b">>}, a \in {"S1", "S2"},
        t \in {TickMs, Tolerance}}

MatcherLists == UNION {[1..n -> MatcherRows] : n \in 0..MaxRows}

\* the component renders: the useMemo runs on its inputs
MessageRender ==
    /\ matcher.runs < MaxRuns
    /\ matcher' =
         [matcher EXCEPT
            !.last = attachments(matcher.message, matcher.threadAttachments),
            !.first = IF matcher.runs = 0
                      THEN attachments(matcher.message, matcher.threadAttachments)
                      ELSE @,
            !.threadAttachments = afterMatching(matcher.message, @),
            !.runs = @ + 1]
    /\ UNCHANGED <<serverVars, sidebar, promptBox, storage, localStore, router>>

InitMatcher ==
    /\ ServerInit
    /\ \E m \in MatcherMessages, l \in MatcherLists :
          matcher = [message |-> m, threadAttachments |-> l, given |-> l,
                     first |-> << >>, last |-> << >>, runs |-> 0]
    /\ sidebar = SidebarIdle
    /\ promptBox = PromptBoxIdle
    /\ storage = StorageIdle
    /\ localStore = LocalStoreIdle
    /\ router = RouterIdle

NextMatcher == MessageRender

SpecMatcher == InitMatcher /\ [][NextMatcher]_vars

(***************************************************************************)
(* PromptInputBox: files offered for upload, and file storage              *)
(***************************************************************************)
MaxUploads == 2
MaxAlerts == 2
MaxEvents == 3
MaxOffer == 2

\* 20MB limit
MaxFileSize == 20 * 1024 * 1024

\* the files the user has: an image, a document of exactly the limit, an
\* image of 25 MiB, an archive, and an image of a type that is not supported
Files ==
    {[name |-> "a.png", type |-> "image/png", size |-> 1024],
     [name |-> "b.pdf", type |-> "application/pdf", size |-> MaxFileSize],
     [name |-> "c.png", type |-> "image/png", size |-> 25 * 1024 * 1024],
     [name |-> "d.zip", type |-> "application/zip", size |-> 1024],
     [name |-> "e.bmp", type |-> "image/bmp", size |-> 1024]}

\* what is picked, dropped or pasted at once: different files
FileLists ==
    {files \in UNION {[1..n -> Files] : n \in 1..MaxOffer} :
        \A j, k \in 1..Len(files) : j # k => files[j] # files[k]}

supportedTypes ==
    {"image/jpeg", "image/jpg", "image/png", "image/gif", "image/webp", "image/svg+xml",
     "application/pdf", "application/msword",
     "application/vnd.openxmlformats-officedocument.wordprocessingml.document",
     "text/plain", "text/csv",
     "audio/mpeg", "audio/mp3", "audio/wav", "audio/ogg", "audio/mp4",
     "video/mp4", "video/quicktime", "video/webm"}

isFileSupported(file) == file.type \in supportedTypes

\* type.indexOf("image") !== -1 and type.startsWith('image/'), on the types
\* of Files
isImageType(type) == type \in {"image/png", "image/bmp"}

TypeNotSupported == "File type not supported"
SizeTooLarge == "File size too large (max 20MB)"
UploadFailed == "File upload failed"

\* `temp_${Date.now()}` and the identifiers of file storage
tempIdOf(t) == <<"temp", t>>
storageIdOf(k) == <<"storage", k>>
NoStorageId == <<"storage", 0>>

\* processFile up to its first await, on the state of the box
processFile(box, file, t) ==
    IF ~isFileSupported(file)
    THEN [box EXCEPT !.alerts = Append(@, TypeNotSupported)]
    ELSE IF file.size > MaxFileSize
    THEN [box EXCEPT !.alerts = Append(@, SizeTooLarge)]
    ELSE [box EXCEPT
            !.attachments = Append(@, [id |-> tempIdOf(t), fileName |-> file.name,
                                       fileType |-> file.type, fileSize |-> file.size,
                                       isUploading |-> TRUE, url |-> FALSE,
                                       upload |-> Len(box.uploads) + 1]),
            !.uploads = Append(@, [file |-> file, tempId |-> tempIdOf(t),
                                   pc |-> "generateUploadUrl",
                                   storageId |-> NoStorageId])]

\* files.forEach(file => processFile(file))
RECURSIVE forEachProcessFile(_, _, _)
forEachProcessFile(box, files, t) ==
    IF files = << >> THEN box
    ELSE forEachProcessFile(processFile(box, Head(files), t), Tail(files), t)

\* the bounds on a handler's outcome; a handler runs at its own millisecond
offered(box) ==
    /\ now - TickMs < MaxEvents
    /\ Len(box.uploads) <= MaxUploads
    /\ Len(box.alerts) <= MaxAlerts
    /\ promptBox' = box
    /\ now' = now + 1
    /\ UNCHANGED <<nextId, threads, messages, tasks, agentThreads, result,
                   sidebar, matcher, storage, localStore, router>>

handleFileInputChange(files) == offered(forEachProcessFile(promptBox, files, now))

handleDrop(files) ==
    offered(forEachProcessFile(promptBox, SelectSeq(files, isFileSupported), now))

\* the first item of the clipboard that is an image, if there is one
handlePaste(items) ==
    LET images == SelectSeq(items, LAMBDA file : isImageType(file.type)) IN
    offered(IF images = << >> THEN promptBox
            ELSE processFile(promptBox, Head(images), now))

handleRemoveAttachment(attachmentId) ==
    /\ promptBox' = [promptBox EXCEPT !.attachments =
                        SelectSeq(@, LAMBDA att : att.id # attachmentId)]
    /\ UNCHANGED <<serverVars, sidebar, matcher, storage, localStore, router>>

\* the texts of the input box at a submit, and the prefix of the mode that
\* is switched on (none, or Think)
MaxSubmits == 1
Inputs == {<< >>, <<" ">>, <<"a">>}
Prefixes == {<< >>, <<"[", "T", "h", "i", "n", "k", ":", " ">>}

\* messagePrefix ? `${messagePrefix}${input}]` : input
formattedInput(messagePrefix, input) ==
    IF messagePrefix # << >> THEN messagePrefix \o input \o <<"]">> ELSE input

\* a submit that hands over every entry's id
allAttachmentIds(entries) == [k \in 1..Len(entries) |-> entries[k].id]
\* attachments.filter(att => !att.isUploading).map(att => att.id)
attachmentIdsOf(entries) ==
    LET ready == SelectSeq(entries, LAMBDA att : ~att.isUploading)
    IN [k \in 1..Len(ready) |-> ready[k].id]

\* onSend: handleSubmit of ChatContent with a thread active. A prompt that
\* trims to nothing returns; otherwise sendMessage is called
onSend(requests, prompt, attachmentIds, modelId) ==
    IF trim(prompt) = << >> THEN requests
    ELSE Append(requests, [args |-> [prompt |-> trim(prompt), modelId |-> modelId,
                                     attachmentIds |-> attachmentIds],
                           status |-> "Requested", task |-> 0, shown |-> FALSE])

\* handleSubmit of the box with text or entries: onSend is called and the
\* box is emptied
handleSubmit(input, messagePrefix) ==
    /\ trim(input) # << >> \/ Len(promptBox.attachments) > 0
    /\ Len(promptBox.sent) < MaxSubmits
    /\ promptBox' = [promptBox EXCEPT
                        !.sent = Append(@, [message |-> formattedInput(messagePrefix, input),
                                            attachmentIds |->
                                                attachmentIdsOf(promptBox.attachments)]),
                        !.attachments = << >>]
    /\ localStore' = [localStore EXCEPT !.requests =
                         onSend(@, formattedInput(messagePrefix, input),
                                attachmentIdsOf(promptBox.attachments), DEFAULT_CHAT_MODEL)]
    /\ UNCHANGED <<serverVars, sidebar, matcher, storage, router>>

setUpload(u, pc, storageId) ==
    [promptBox.uploads EXCEPT ![u] = [@ EXCEPT !.pc = pc, !.storageId = storageId]]

\* catch: alert("File upload failed") and the entries with the tempId go
catchUpload(u) ==
    [promptBox EXCEPT
        !.alerts = Append(@, UploadFailed),
        !.attachments = SelectSeq(@, LAMBDA att : att.id # promptBox.uploads[u].tempId),
        !.uploads = setUpload(u, "failed", NoStorageId)]

\* await generateUploadUrl(): the mutation throws without an identity
generateUploadUrl(caller, u) ==
    /\ promptBox.uploads[u].pc = "generateUploadUrl"
    /\ IF getUserId(caller) # Ok
       THEN /\ Len(promptBox.alerts) < MaxAlerts
            /\ promptBox' = catchUpload(u)
            /\ UNCHANGED storage
       ELSE /\ storage' = [storage EXCEPT !.uploadUrls = @ + 1]
            /\ promptBox' = [promptBox EXCEPT !.uploads = setUpload(u, "fetch", NoStorageId)]
    /\ UNCHANGED <<serverVars, sidebar, matcher, localStore, router>>

\* fetch(uploadUrl, POST): storage keeps the file under a new identifier
fetchUpload(u) ==
    /\ promptBox.uploads[u].pc = "fetch"
    /\ storage' = [storage EXCEPT !.files =
                      Append(@, [contentType |-> promptBox.uploads[u].file.type,
                                 size |-> promptBox.uploads[u].file.size])]
    /\ promptBox' = [promptBox EXCEPT !.uploads =
                        setUpload(u, "response", storageIdOf(Len(storage.files) + 1))]
    /\ UNCHANGED <<serverVars, sidebar, matcher, localStore, router>>

\* the response is not ok
fetchFails(u) ==
    /\ promptBox.uploads[u].pc = "fetch"
    /\ Len(promptBox.alerts) < MaxAlerts
    /\ promptBox' = catchUpload(u)
    /\ UNCHANGED <<serverVars, sidebar, matcher, storage, localStore, router>>

\* the response is there: the entries with the tempId take the storageId
uploadResponse(u) ==
    /\ promptBox.uploads[u].pc = "response"
    /\ promptBox' =
         [promptBox EXCEPT
            !.attachments =
               [k \in 1..Len(@) |->
                   IF @[k].id = promptBox.uploads[u].tempId
                   THEN [@[k] EXCEPT !.id = promptBox.uploads[u].storageId,
                                     !.isUploading = FALSE]
                   ELSE @[k]],
            !.uploads = setUpload(u, IF isImageType(promptBox.uploads[u].file.type)
                                     THEN "readAsDataURL" ELSE "done",
                                  promptBox.uploads[u].storageId)]
    /\ UNCHANGED <<serverVars, sidebar, matcher, storage, localStore, router>>

\* reader.onload: the preview of an image
readerOnload(u) ==
    /\ promptBox.uploads[u].pc = "readAsDataURL"
    /\ promptBox' =
         [promptBox EXCEPT
            !.attachments =
               [k \in 1..Len(@) |->
                   IF \/ @[k].id = promptBox.uploads[u].tempId
                      \/ @[k].id = promptBox.uploads[u].storageId
                   THEN [@[k] EXCEPT !.url = TRUE]
                   ELSE @[k]],
            !.uploads = setUpload(u, "done", promptBox.uploads[u].storageId)]
    /\ UNCHANGED <<serverVars, sidebar, matcher, storage, localStore, router>>

Null == [null |-> TRUE]

\* a getFileForAI that throws for a file that is not there
getFileForAIStrict(caller, storageId) ==
    IF getUserId(caller) # Ok THEN Result(NotAuthenticated, Void)
    ELSE IF storageId[2] \notin 1..Len(storage.files) THEN Result("File not found", Void)
    ELSE Result(Ok, [storageId |-> storageId,
                     contentType |-> storage.files[storageId[2]].contentType,
                     size |-> storage.files[storageId[2]].size])
\* what getFileForAI gives its caller: ctx.storage.getUrl and
\* ctx.db.system.get are null for a file that is not there
getFileForAIResult(caller, storageId) ==
    IF getUserId(caller) # Ok THEN Result(NotAuthenticated, Void)
    ELSE IF storageId[2] \notin 1..Len(storage.files) THEN Result(Ok, Null)
    ELSE Result(Ok, [storageId |-> storageId,
                     contentType |-> storage.files[storageId[2]].contentType,
                     size |-> storage.files[storageId[2]].size])

getFileForAI(caller, storageId) ==
    /\ result' = getFileForAIResult(caller, storageId)
    /\ UNCHANGED <<now, nextId, threads, messages, tasks, agentThreads, clientVars>>

\* the identifiers getFileForAI is asked for: of the files and one more
StorageIdArgs == {storageIdOf(k) : k \in 1..(MaxUploads + 1)}

\* the box is shown in the chat of a thread
InitUpload ==
    /\ now = TickMs
    /\ nextId = 2
    /\ threads = (1 :> [userId |-> "u1", title |-> NewChat, updatedAt |-> TickMs,
                        agentThreadId |-> NoAgentThread])
    /\ messages = << >>
    /\ tasks = << >>
    /\ agentThreads = << >>
    /\ result = Result("none", Void)
    /\ promptBox = PromptBoxIdle
    /\ storage = StorageIdle
    /\ sidebar = SidebarIdle
    /\ matcher = MatcherIdle
    /\ localStore = LocalStoreIdle
    /\ router = RouterIdle

\* files are offered and removed, and the uploads go on
Uploading ==
    \/ \E files \in FileLists : handleFileInputChange(files)
    \/ \E files \in FileLists : handleDrop(files)
    \/ \E items \in FileLists : handlePaste(items)
    \/ \E k \in 1..Len(promptBox.attachments) :
          handleRemoveAttachment(promptBox.attachments[k].id)
    \/ \E c \in {"u1", NoIdentity}, u \in 1..Len(promptBox.uploads) : generateUploadUrl(c, u)
    \/ \E u \in 1..Len(promptBox.uploads) : fetchUpload(u)
    \/ \E u \in 1..Len(promptBox.uploads) : fetchFails(u)
    \/ \E u \in 1..Len(promptBox.uploads) : uploadResponse(u)
    \/ \E u \in 1..Len(promptBox.uploads) : readerOnload(u)

\* the uploads, and the files read back
NextUpload ==
    \/ Uploading
    \/ \E c \in Callers, id \in StorageIdArgs : getFileForAI(c, id)

SpecUpload == InitUpload /\ [][NextUpload]_vars

\* the uploads, and the box submitted
NextSubmit ==
    \/ Uploading
    \/ \E input \in Inputs, messagePrefix \in Prefixes : handleSubmit(input, messagePrefix)

SpecSubmit == InitUpload /\ [][NextSubmit]_vars

(***************************************************************************)
(* ChatContent: sendMessage with its optimistic update, over the client's  *)
(* sync session (local query store, pending mutations, transitions)        *)
(***************************************************************************)
MaxRequests == 2
MaxWire == 1

\* the thread the chat shows and the user of the browser
activeThreadId == 1
CurrentUser == "u1"

\* handleSubmit: `if (!prompt.trim()) return`, then the trimmed prompt and
\* `modelId || "gpt-4.1-nano"`
SubmitArgs ==
    {[prompt |-> trim(s.prompt),
      modelId |-> IF s.modelId = Undefined THEN "gpt-4.1-nano" ELSE s.modelId,
      attachmentIds |-> s.attachmentIds] : s \in {x \in SendArgs : trim(x.prompt) # << >>}}

\* the optimistic user message of request r
optimisticMessage(r) ==
    [optimistic |-> r, role |-> "user", content |-> localStore.requests[r].args.prompt]

\* withOptimisticUpdate: the update of each pending request, on a value that
\* has a page
RECURSIVE withOptimisticUpdate(_, _, _)
withOptimisticUpdate(value, r, last) ==
    IF r > last THEN value
    ELSE withOptimisticUpdate(
            IF "page" \in DOMAIN value
            THEN [value EXCEPT !.page = Append(@, optimisticMessage(r))]
            ELSE value,
            r + 1, last)

\* what the message list is rendered from: the server's value with the
\* updates of the requests that are not yet completed replayed on it
localQuery ==
    withOptimisticUpdate(localStore.serverValue, localStore.completed + 1,
                         Len(localStore.requests))

\* the user sends: the mutation is queued and its update applied
handleSubmit_ChatContent(args) ==
    /\ activeThreadId \in DOMAIN threads
    /\ Len(localStore.requests) < MaxRequests
    /\ localStore' = [localStore EXCEPT !.requests =
                         Append(@, [args |-> args, status |-> "Requested", task |-> 0,
                                    shown |-> "page" \in DOMAIN localStore.serverValue])]
    /\ UNCHANGED <<serverVars, sidebar, matcher, promptBox, storage, router>>

\* the deployment runs the oldest mutation of the session that it has not run
runMutation(r) ==
    /\ localStore.requests[r].status = "Requested"
    /\ \A q \in 1..(r - 1) : localStore.requests[q].status # "Requested"
    /\ sendMessageHandler(CurrentUser, activeThreadId, localStore.requests[r].args.prompt,
                          localStore.requests[r].args.modelId,
                          localStore.requests[r].args.attachmentIds)
    /\ localStore' = [localStore EXCEPT !.requests[r] =
                         [@ EXCEPT !.status = result'.status,
                                   !.task = IF result'.status = Ok THEN Len(tasks') ELSE 0]]
    /\ UNCHANGED <<sidebar, matcher, promptBox, storage, router>>

\* the result of the subscribed query and the mutations run so far
snapshot ==
    [page |-> messageList(activeThreadId),
     executed |-> Cardinality({r \in 1..Len(localStore.requests) :
                                  localStore.requests[r].status # "Requested"})]

\* the deployment sends a transition when what it would send has changed
sendTransition ==
    /\ activeThreadId \in DOMAIN threads
    /\ snapshot # localStore.pushed
    /\ Len(localStore.wire) < MaxWire
    /\ localStore' = [localStore EXCEPT !.wire = Append(@, snapshot), !.pushed = snapshot]
    /\ UNCHANGED <<serverVars, sidebar, matcher, promptBox, storage, router>>

\* a client that keeps the updates of completed mutations
keepOptimisticUpdates(transition) == localStore.completed
\* the updates of the mutations a transition reflects are dropped
dropOptimisticUpdates(transition) == transition.executed

\* the client takes a transition: the server's value is replaced as a whole
receiveTransition ==
    /\ localStore.wire # << >>
    /\ localStore' = [localStore EXCEPT
                         !.serverValue = [page |-> Head(localStore.wire).page],
                         !.completed = dropOptimisticUpdates(Head(localStore.wire)),
                         !.wire = Tail(@)]
    /\ UNCHANGED <<serverVars, sidebar, matcher, promptBox, storage, router>>

InitCache ==
    /\ ServerInit
    /\ localStore = LocalStoreIdle
    /\ sidebar = SidebarIdle
    /\ matcher = MatcherIdle
    /\ promptBox = PromptBoxIdle
    /\ storage = StorageIdle
    /\ router = RouterIdle

NextCache ==
    \/ createThread(CurrentUser)
    \/ \E args \in SubmitArgs : handleSubmit_ChatContent(args)
    \/ \E r \in 1..Len(localStore.requests) : runMutation(r)
    \/ sendTransition
    \/ receiveTransition
    \/ \E i \in 1..Len(tasks) : getLocalThread(i)
    \/ \E i \in 1..Len(tasks) : agentCreateThread(i)
    \/ \E i \in 1..Len(tasks) : updateLocalThreadAgentId(i)
    \/ \E i \in 1..Len(tasks) : saveMessageAttachments(i)
    \/ \E i \in 1..Len(tasks) : streamTextSaveInput(i)
    \/ \E i \in 1..Len(tasks) : consumeStream(i)
    \/ \E i \in 1..Len(tasks) : streamThrows(i)

SpecCache == InitCache /\ [][NextCache]_vars

(***************************************************************************)
(* ChatStreaming: the thread of the URL                                    *)
(***************************************************************************)
MaxOwned == 51
MaxOpens == 2

\* paginationOpts: { numItems: 50, cursor: null }
NumItems == 50

\* the uuid createThread gives a thread
uuidOf(t) == <<"uuid", t>>

\* the threads of a user by updatedAt descending, the first numItems of them
RECURSIVE paginate(_, _)
paginate(ids, numItems) ==
    IF ids = {} \/ numItems = 0 THEN << >>
    ELSE LET t == CHOOSE x \in ids : \A y \in ids : threads[y].updatedAt <= threads[x].updatedAt
         IN <<[_id |-> t, uuid |-> uuidOf(t)]>> \o paginate(ids \ {t}, numItems - 1)

listThreadsByUserId(caller, numItems) ==
    paginate({t \in DOMAIN threads : threads[t].userId = caller}, numItems)

\* threads.page.find(t => t.uuid === chatId) || null
currentThread(r) ==
    IF r.chatId = NoChatId \/ "page" \notin DOMAIN r.threads THEN 0
    ELSE LET found == SelectSeq(r.threads.page, LAMBDA t : t.uuid = r.chatId)
         IN IF found = << >> THEN 0 ELSE Head(found)._id

\* the effect on chatId, currentThread and threads; after navigate("/chat")
\* it runs again without a chatId
useEffect(r) ==
    IF r.chatId = NoChatId THEN [r EXCEPT !.activeThreadId = 0]
    ELSE IF "page" \notin DOMAIN r.threads THEN r
    ELSE IF currentThread(r) = 0 THEN [r EXCEPT !.chatId = NoChatId, !.activeThreadId = 0]
    ELSE [r EXCEPT !.activeThreadId = currentThread(r)]

\* the uuids a URL is opened with: of the oldest and the newest threads, of
\* another user's thread and of no thread
ChatIdArgs == {uuidOf(k) : k \in {1, 2, MaxOwned, MaxOwned + 1, MaxOwned + 2}}

\* the user opens /chat/:chatId
openChatId(chatId) ==
    /\ router.opens < MaxOpens
    /\ router' = useEffect([router EXCEPT !.chatId = chatId, !.requested = chatId,
                                          !.opens = @ + 1])
    /\ UNCHANGED <<serverVars, sidebar, matcher, promptBox, storage, localStore>>

\* the user opens /chat
openChat ==
    /\ router.opens < MaxOpens
    /\ router' = useEffect([router EXCEPT !.chatId = NoChatId, !.requested = NoChatId,
                                          !.opens = @ + 1])
    /\ UNCHANGED <<serverVars, sidebar, matcher, promptBox, storage, localStore>>

\* useConvexAuth settles: the user is authenticated
authLoaded ==
    /\ router.isLoading
    /\ router' = [router EXCEPT !.isLoading = FALSE]
    /\ UNCHANGED <<serverVars, sidebar, matcher, promptBox, storage, localStore>>

\* the result of listThreadsByUserId arrives
threadsLoaded ==
    /\ ~router.isLoading
    /\ "page" \notin DOMAIN router.threads
    /\ router' = useEffect([router EXCEPT !.threads =
                               [page |-> listThreadsByUserId(CurrentUser, NumItems)]])
    /\ UNCHANGED <<serverVars, sidebar, matcher, promptBox, storage, localStore>>

\* the user has up to MaxOwned threads, thread 1 the least recently updated,
\* and another user has one
InitRouter ==
    /\ \E n \in 0..MaxOwned :
          /\ threads = [t \in 1..(n + 1) |->
                           [userId |-> IF t <= n THEN CurrentUser ELSE "u2",
                            title |-> NewChat, updatedAt |-> t,
                            agentThreadId |-> NoAgentThread]]
          /\ nextId = n + 2
    /\ now = TickMs
    /\ messages = << >>
    /\ tasks = << >>
    /\ agentThreads = << >>
    /\ result = Result("none", Void)
    /\ router = RouterIdle
    /\ sidebar = SidebarIdle
    /\ matcher = MatcherIdle
    /\ promptBox = PromptBoxIdle
    /\ storage = StorageIdle
    /\ localStore = LocalStoreIdle

NextRouter ==
    \/ \E chatId \in ChatIdArgs : openChatId(chatId)
    \/ openChat
    \/ authLoaded
    \/ threadsLoaded

SpecRouter == InitRouter /\ [][NextRouter]_vars

(***************************************************************************)
(* The optimistic update of sendMessage on the queries of the local store  *)
(***************************************************************************)
MaxQueries == 2

\* the cached queries of listThreadMessages: of two threads, without
\* streamArgs (the page of messages) or with them (useThreadMessages is
\* given stream: true), loading or with a page
CachedMessage == [_id |-> <<"message", 1>>, role |-> "assistant", content |-> <<"r">>]
CachedQueries ==
    {[args |-> [threadId |-> t, streamArgs |-> k], value |-> v] :
        t \in {1, 2}, k \in {Undefined, "list"},
        v \in {[loading |-> TRUE], [page |-> << >>], [page |-> <<CachedMessage>>]}}

\* the store holds one value for each arguments
Stores ==
    {q \in UNION {[1..n -> CachedQueries] : n \in 0..MaxQueries} :
        \A j, k \in 1..Len(q) : j # k => q[j].args # q[k].args}

\* store.setQuery(query, queryArgs, value)
setQuery(queries, queryArgs, value) ==
    [k \in 1..Len(queries) |->
        IF queries[k].args = queryArgs THEN [queries[k] EXCEPT !.value = value]
        ELSE queries[k]]

\* the message the callback makes: _id `optimistic-${Date.now()}`
newOptimisticMessage(args, t) ==
    [_id |-> <<"optimistic", t>>, role |-> "user", content |-> args.prompt]

\* the callback given to withOptimisticUpdate
optimisticUpdate(queries, args, t) ==
    LET threadQueries == SelectSeq(queries, LAMBDA q : q.args.threadId = args.threadId) IN
    IF Len(threadQueries) > 0 /\ "page" \in DOMAIN threadQueries[1].value
    THEN setQuery(queries, threadQueries[1].args,
                  [threadQueries[1].value EXCEPT
                      !.page = Append(@, newOptimisticMessage(args, t))])
    ELSE queries

\* sendMessage(args) is called: the mutation is queued and the callback runs
\* on the store
sendMessageOptimistic(args) ==
    /\ Len(localStore.requests) < MaxRequests
    /\ localStore' = [localStore EXCEPT
                         !.queries = optimisticUpdate(@, args, now),
                         !.requests = Append(@, [args |-> args, status |-> "Requested",
                                                 task |-> 0, shown |-> FALSE])]
    /\ UNCHANGED <<serverVars, sidebar, matcher, promptBox, storage, router>>

\* the arguments of the mutation
OptimisticArgs ==
    {[threadId |-> t, prompt |-> s.prompt, modelId |-> s.modelId,
      attachmentIds |-> s.attachmentIds] : t \in {1, 2}, s \in SubmitArgs}

InitStore ==
    /\ ServerInit
    /\ \E q \in Stores : localStore = [LocalStoreIdle EXCEPT !.queries = q]
    /\ sidebar = SidebarIdle
    /\ matcher = MatcherIdle
    /\ promptBox = PromptBoxIdle
    /\ storage = StorageIdle
    /\ router = RouterIdle

NextStore == \E args \in OptimisticArgs : sendMessageOptimistic(args)

SpecStore == InitStore /\ [][NextStore]_vars

(***************************************************************************)
(* Properties                                                              *)
(***************************************************************************)
\* the send of run i was accepted for a thread that still exists
ThreadOf(i) == tasks[i].threadId
Alive(i) == ThreadOf(i) \in DOMAIN threads

\* the user messages of run i in the authoritative list of its thread
UserMessagesOf(i) ==
    {k \in 1..Len(messageList(ThreadOf(i))) :
        /\ messageList(ThreadOf(i))[k].role = "user"
        /\ messageList(ThreadOf(i))[k].task = i}

\* C1: a sendMessage by the owner of the thread whose prompt is empty or
\* only whitespace fails with the prompt's validation error and changes
\* neither the tables, the scheduler nor the agent's threads.
C1_BlankPromptRejected ==
    [][\A c \in Users, t \in ThreadIdArgs, s \in SendArgs :
          (/\ trim(s.prompt) = << >>
           /\ authorizeThreadAccess(c, t) = Ok
           /\ sendMessage(c, t, s.prompt, s.modelId, s.attachmentIds))
          => (/\ result'.status = PromptEmpty
              /\ UNCHANGED <<threads, messages, tasks, agentThreads>>)]_vars

\* C2: a thread operation (sendMessage, sendMessageAndUpdateThread,
\* listThreadMessages, getThreadAttachments, deleteThread) that an
\* authenticated user calls with well-formed arguments on a thread owned by
\* somebody else fails with the authorization error.
C2_ForeignThreadUnauthorized ==
    [][\A c \in Users, t \in ThreadIdArgs :
          (t \in DOMAIN threads /\ threads[t].userId # c)
          => ((\/ \E s \in SendArgs :
                    /\ PromptSchema(s.prompt) /\ ModelIdParse(ModelArg(s.modelId))
                    /\ \/ sendMessage(c, t, s.prompt, s.modelId, s.attachmentIds)
                       \/ \E f \in BOOLEAN :
                            sendMessageAndUpdateThread(c, t, s.prompt, f, s.modelId,
                                                       s.attachmentIds)
               \/ \E k \in StreamKinds : listThreadMessages(c, t, k)
               \/ getThreadAttachments(c, t)
               \/ deleteThread(c, t))
              => result'.status = Unauthorized)]_vars

\* C3: an accepted sendMessage, made when the clock is past the thread's
\* updatedAt, returns a message identifier and leaves the thread with a
\* strictly greater updatedAt.
C3_SendReturnsIdAndTouchesThread ==
    [][\A c \in Callers, t \in ThreadIdArgs, s \in SendArgs :
          (/\ sendChecks(c, t, s.prompt, s.modelId) = Ok
           /\ now > threads[t].updatedAt
           /\ sendMessage(c, t, s.prompt, s.modelId, s.attachmentIds))
          => (/\ result'.value # Void
              /\ threads'[t].updatedAt > threads[t].updatedAt)]_vars

\* C4: whenever a response-generation run is in the scheduler for a thread
\* that exists, the user message of its send is already in the thread's
\* message list.
C4_MessageWrittenBeforeTask ==
    \A i \in 1..Len(tasks) : Alive(i) => UserMessagesOf(i) # {}

\* C5: once a thread has its agent-thread linkage, no step changes it.
C5_LinkageSetAtMostOnce ==
    [][\A t \in DOMAIN threads :
          (threads[t].agentThreadId # NoAgentThread /\ t \in DOMAIN threads')
          => threads'[t].agentThreadId = threads[t].agentThreadId]_vars

\* C6: when a run of a send goes on to the model call, it has just written
\* the association record of its send if the send carried at least one
\* attachment, and has written nothing if it carried none; and no other
\* step adds a record to the messages table.
C6_RecordIffAttachments ==
    [][/\ \A i \in 1..Len(tasks) :
            (tasks[i].pc # "streamText" /\ tasks'[i].pc = "streamText")
            => IF Len(tasks[i].attachmentIds) >= 1
               THEN messages' = Append(messages,
                                       [threadId |-> tasks[i].threadId,
                                        body |-> tasks[i].prompt,
                                        userId |-> tasks[i].userId,
                                        attachments |-> tasks[i].attachmentIds,
                                        _creationTime |-> now])
               ELSE messages' = messages
       /\ Len(messages') > Len(messages)
            => \E i \in 1..Len(tasks) :
                  /\ tasks[i].pc # "streamText" /\ tasks'[i].pc = "streamText"
                  /\ Len(tasks[i].attachmentIds) >= 1]_vars

\* a send with an attachment and a send without one have both been answered,
\* and the table holds the one record
C6_Witness ==
    /\ Len(messages) = 1
    /\ \E i, j \in 1..Len(tasks) :
          /\ tasks[i].pc = "done" /\ tasks[i].attachmentIds # << >>
          /\ messages[1].body = tasks[i].prompt
          /\ messages[1].attachments = tasks[i].attachmentIds
          /\ tasks[j].pc = "done" /\ tasks[j].attachmentIds = << >>

\* C7: for every user message in a thread's list whose send carried the
\* attachments A with the prompt P, the thread has a record with body P and
\* attachments A, and the UI's matching shows exactly A under the message.
C7_MatchingReturnsOwnAttachments ==
    \A i \in 1..Len(tasks) :
        (Alive(i) /\ tasks[i].attachmentIds # << >>)
        => \A k \in UserMessagesOf(i) :
              /\ \E r \in 1..Len(byThreadId(ThreadOf(i))) :
                    /\ byThreadId(ThreadOf(i))[r].body = tasks[i].prompt
                    /\ byThreadId(ThreadOf(i))[r].attachments = tasks[i].attachmentIds
              /\ attachments(messageList(ThreadOf(i))[k],
                             threadAttachmentsOf(ThreadOf(i))) = tasks[i].attachmentIds

\* C8: a sendMessage whose modelId is not an enumerated identifier fails
\* with a validation error and leaves the threads table (so every
\* updatedAt), the messages table, the scheduler and the agent's threads as
\* they were.
C8_UnknownModelRejected ==
    [][\A c \in Callers, t \in ThreadIdArgs, s \in SendArgs :
          (/\ ModelArg(s.modelId) \notin ModelId
           /\ sendMessage(c, t, s.prompt, s.modelId, s.attachmentIds))
          => (/\ result'.status \in {InvalidEnum, PromptEmpty}
              /\ UNCHANGED <<threads, messages, tasks, agentThreads>>)]_vars

\* the last call was refused for its model identifier, on a thread that
\* exists and was last updated before the call
C8_Witness ==
    /\ result.status = InvalidEnum
    /\ \E t \in DOMAIN threads : threads[t].updatedAt < now

\* C9: when the model invocation of the run of a send with a non-blank
\* prompt has thrown and the thread still exists, the thread's message list
\* holds the user message of that send.
C9_UserMessageSurvivesFailure ==
    \A i \in 1..Len(tasks) :
        (tasks[i].pc = "failed" /\ Alive(i) /\ trim(tasks[i].prompt) # << >>)
        => UserMessagesOf(i) # {}

\* C10: when the run of an accepted send with a non-blank prompt has
\* finished and the thread still exists, the thread's message list holds
\* exactly one user message of that send, and its body is the prompt.
C10_ExactlyOneUserMessage ==
    \A i \in 1..Len(tasks) :
        (tasks[i].pc = "done" /\ Alive(i) /\ trim(tasks[i].prompt) # << >>)
        => /\ Cardinality(UserMessagesOf(i)) = 1
           /\ \A k \in UserMessagesOf(i) :
                 messageList(ThreadOf(i))[k].content = tasks[i].prompt

\* C15: every result of listThreadMessages carries the streams payload of
\* the kind asked for, {kind: "deltas", deltas} or {kind: "list", messages},
\* also when the thread has no agent-thread linkage and the page is empty.
C15_StreamsOfRequestedKind ==
    [][\A c \in Callers, t \in ThreadIdArgs, k \in {"deltas", "list"} :
          (listThreadMessages(c, t, k) /\ result'.status = Ok)
          => /\ result'.value.streams.kind = k
             /\ DOMAIN result'.value.streams =
                   IF k = "deltas" THEN {"kind", "deltas"} ELSE {"kind", "messages"}
             /\ (threads[t].agentThreadId = NoAgentThread
                   => result'.value.page = << >>)]_vars

\* a list was asked for on a thread without linkage, and an empty page came
\* back with a payload of kind "list"
C15_Witness ==
    /\ result.status = Ok
    /\ "streams" \in DOMAIN result.value
    /\ result.value.streams.kind = "list"
    /\ result.value.page = << >>
    /\ \E t \in DOMAIN threads : threads[t].agentThreadId = NoAgentThread

\* C17: every record of the messages table refers to a thread that exists
\* and holds at least one attachment reference.
C17_RecordsBelongToThreads ==
    \A r \in 1..Len(messages) :
        /\ messages[r].threadId \in DOMAIN threads
        /\ Len(messages[r].attachments) >= 1

\* the sends accepted so far for thread t
SendsTo(t) == {i \in 1..Len(tasks) : tasks[i].threadId = t}

\* C18: the first message sent to a thread sets the thread's title to the
\* message when it has at most 50 characters and to its first 47 characters
\* followed by "..." otherwise, and a later message leaves the title as it is.
C18_TitleFromFirstMessage ==
    [][\A c \in Callers, t \in ThreadIdArgs, s \in SendArgs :
          (/\ sendChecks(c, t, s.prompt, s.modelId) = Ok
           /\ sendMessage(c, t, s.prompt, s.modelId, s.attachmentIds))
          => threads'[t].title =
                IF SendsTo(t) = {} THEN TitleOf(s.prompt) ELSE threads[t].title]_vars

\* the buckets of a grouping, in the order the sidebar shows them
Buckets(g) == <<g.today, g.last7Days, g.last30Days, g.older>>

\* the places (bucket, position) where a thread is shown
PlacesOf(g, thread) ==
    {<<b, k>> \in (1..4) \X (1..MaxPage) :
        k <= Len(Buckets(g)[b]) /\ Buckets(g)[b][k] = thread}

\* C16: once rendered, every thread of the page is in exactly one of the
\* four buckets, exactly once, the buckets hold nothing else, and two
\* threads with the same updatedAt are in the same bucket.
C16_GroupingPartitions ==
    sidebar.rendered =>
        /\ \A k \in 1..Len(sidebar.page) :
              Cardinality(PlacesOf(sidebar.grouped, sidebar.page[k])) = 1
        /\ Len(sidebar.grouped.today) + Len(sidebar.grouped.last7Days)
             + Len(sidebar.grouped.last30Days) + Len(sidebar.grouped.older)
             = Len(sidebar.page)
        /\ \A j, k \in 1..Len(sidebar.page) :
              sidebar.page[j].updatedAt = sidebar.page[k].updatedAt
              => \E b \in 1..4 :
                    /\ PlacesOf(sidebar.grouped, sidebar.page[j]) \subseteq {b} \X (1..MaxPage)
                    /\ PlacesOf(sidebar.grouped, sidebar.page[k]) \subseteq {b} \X (1..MaxPage)

\* a rendered page of two threads, one updated today and one more than
\* thirty days ago
C16_Witness ==
    /\ sidebar.rendered
    /\ Len(sidebar.page) = 2
    /\ Len(sidebar.grouped.today) = 1
    /\ Len(sidebar.grouped.older) = 1

\* C20: however often the matching has run on a message and a list of
\* association records, its result is that of the first run, it is what the
\* matching gives on the list as it was handed in, and the list is still in
\* the order in which it was handed in.
C20_MatchingIdempotent ==
    matcher.runs >= 1 =>
        /\ matcher.last = matcher.first
        /\ matcher.last = attachments(matcher.message, matcher.given)
        /\ matcher.threadAttachments = matcher.given

\* the matching has run twice on a message that matches no record by its
\* content, took the record closest in time, and the list was not in the
\* order of the distances
C20_Witness ==
    /\ matcher.runs = 2
    /\ matcher.last # << >>
    /\ findMatching(matcher.message, matcher.given) = 0
    /\ sortedAttachments(matcher.message, matcher.given) # matcher.given

\* the file is over the limit or of a type that is not on the list
Refused(file) == file.size > MaxFileSize \/ file.type \notin supportedTypes

\* the handler raised one alert and left the entries, the uploads and file
\* storage as they were
AlertOnly ==
    /\ Len(promptBox'.alerts) = Len(promptBox.alerts) + 1
    /\ promptBox'.attachments = promptBox.attachments
    /\ promptBox'.uploads = promptBox.uploads
    /\ storage' = storage

\* C12: a file over 20 MiB or of a type outside the list, offered by the
\* picker, by a drop or (an image) by a paste, raises an alert, adds no
\* entry, starts no upload and stores nothing.
C12_RefusedFileAlerts ==
    [][\A file \in Files :
          Refused(file) =>
             /\ handleFileInputChange(<<file>>) => AlertOnly
             /\ handleDrop(<<file>>) => AlertOnly
             /\ (isImageType(file.type) /\ handlePaste(<<file>>)) => AlertOnly]_vars

\* the entry of upload u is in the box
EntryOf(u) == \E k \in 1..Len(promptBox.attachments) : promptBox.attachments[k].upload = u

\* C13: when an upload completes, exactly its own entry takes the storage
\* identifier; the entries of the other uploads stay as they are.
C13_OwnEntryReplaced ==
    [][\A u \in 1..Len(promptBox.uploads) :
          (EntryOf(u) /\ uploadResponse(u)) =>
             /\ Len(promptBox'.attachments) = Len(promptBox.attachments)
             /\ \A k \in 1..Len(promptBox.attachments) :
                   IF promptBox.attachments[k].upload = u
                   THEN /\ promptBox'.attachments[k].id = promptBox.uploads[u].storageId
                        /\ ~promptBox'.attachments[k].isUploading
                   ELSE promptBox'.attachments[k] = promptBox.attachments[k]]_vars

\* C14: getFileForAI writes nothing; it throws for a caller without an
\* identity, returns null for an identifier with no file, and the file's
\* metadata otherwise.
C14_GetFileForAIReadsOnly ==
    [][\A c \in Callers, id \in StorageIdArgs :
          getFileForAI(c, id) =>
             /\ UNCHANGED <<storage, promptBox, threads, messages, tasks, agentThreads>>
             /\ (c = NoIdentity) => result'.status = NotAuthenticated
             /\ (c # NoIdentity /\ id[2] \notin 1..Len(storage.files)) =>
                   (result'.status = Ok /\ result'.value = Null)
             /\ (c # NoIdentity /\ id[2] \in 1..Len(storage.files)) =>
                   /\ result'.status = Ok
                   /\ result'.value # Null
                   /\ result'.value.storageId = id
                   /\ result'.value.size = storage.files[id[2]].size]_vars

\* a file is stored and getFileForAI returned null
C14_Witness == storage.files # << >> /\ result = Result(Ok, Null)

\* the optimistic entry of request r is in the rendered list
OptimisticShown(r) ==
    /\ "page" \in DOMAIN localQuery
    /\ \E k \in 1..Len(localQuery.page) :
          "optimistic" \in DOMAIN localQuery.page[k] /\ localQuery.page[k].optimistic = r

\* the user message the deployment saved for request r is in the rendered list
AuthoritativeShown(r) ==
    /\ "page" \in DOMAIN localQuery
    /\ localStore.requests[r].task # 0
    /\ \E k \in 1..Len(localQuery.page) :
          /\ "task" \in DOMAIN localQuery.page[k]
          /\ localQuery.page[k].role = "user"
          /\ localQuery.page[k].task = localStore.requests[r].task

OwnThreadOf(chatId) ==
    {t \in DOMAIN threads : threads[t].userId = CurrentUser /\ uuidOf(t) = chatId}

\* C19: once the thread list has loaded, a URL opened with the uuid of one of
\* the user's threads shows that thread, still under its URL, and a URL
\* opened with any other uuid has been replaced by the chat route without id.
C19_UuidResolves ==
    (router.requested # NoChatId /\ "page" \in DOMAIN router.threads) =>
        IF OwnThreadOf(router.requested) # {}
        THEN router.chatId = router.requested /\ router.activeThreadId \in OwnThreadOf(router.requested)
        ELSE router.chatId = NoChatId /\ router.activeThreadId = 0

\* the records whose body equals the content of the rendered message, and
\* those whose body is contained in it
ExactRecords ==
    {k \in 1..Len(matcher.given) : matcher.given[k].messageBody = matcher.message.content}
ContainedRecords ==
    {k \in 1..Len(matcher.given) :
        Includes(matcher.message.content, matcher.given[k].messageBody)}

\* a user message with content has been rendered
UserMessageRendered ==
    /\ matcher.runs > 0
    /\ matcher.message.role = "user"
    /\ matcher.message.content # << >>

\* C21: the matching prefers an exactly equal record to a contained one, and
\* uses containment only when no record is exactly equal.
C21_ExactBeforeContainment ==
    UserMessageRendered =>
        IF ExactRecords # {}
        THEN \E k \in ExactRecords : matcher.last = matcher.given[k].attachments
        ELSE ContainedRecords # {} =>
                \E k \in ContainedRecords : matcher.last = matcher.given[k].attachments

\* the least difference in time between the message and a record
Nearest ==
    {k \in 1..Len(matcher.given) :
        \A j \in 1..Len(matcher.given) :
            Abs(matcher.given[k]._creationTime - matcher.message._creationTime)
               <= Abs(matcher.given[j]._creationTime - matcher.message._creationTime)}

\* C22: with no record matching by content, a nearest record is returned
\* when it is less than 5000 ms from the message, and nothing otherwise.
C22_NearestWithinTolerance ==
    (/\ UserMessageRendered
     /\ matcher.message._creationTime # 0
     /\ ExactRecords = {} /\ ContainedRecords = {}) =>
        IF \E k \in Nearest :
              Abs(matcher.given[k]._creationTime - matcher.message._creationTime) < 5000
        THEN \E k \in Nearest : matcher.last = matcher.given[k].attachments
        ELSE matcher.last = << >>

\* the nearest record is exactly 5000 ms away and nothing is returned
C22_Witness ==
    /\ UserMessageRendered
    /\ ExactRecords = {} /\ ContainedRecords = {}
    /\ \E k \in Nearest :
          Abs(matcher.given[k]._creationTime - matcher.message._creationTime) = 5000
    /\ matcher.last = << >>

\* C23: a message whose role is not user is shown without attachments.
C23_OnlyUserMessages ==
    (matcher.runs > 0 /\ matcher.message.role # "user") => matcher.last = << >>

\* an assistant message whose content equals a record's body was rendered
C23_Witness ==
    /\ matcher.runs > 0
    /\ matcher.message.role = "assistant"
    /\ ExactRecords # {}
    /\ matcher.last = << >>

\* the list is in descending order of updatedAt
Descending(list) ==
    \A i, j \in 1..Len(list) : i < j => list[i].updatedAt >= list[j].updatedAt

\* C24: in every bucket the threads are in the order of the page (thread k
\* of the page has the _id k), so the buckets of a page that is in
\* descending order of updatedAt are in descending order too.
C24_BucketsKeepOrder ==
    sidebar.rendered =>
        \A b \in 1..4 :
            /\ \A i, j \in 1..Len(Buckets(sidebar.grouped)[b]) :
                  i < j => Buckets(sidebar.grouped)[b][i]._id < Buckets(sidebar.grouped)[b][j]._id
            /\ Descending(sidebar.page) => Descending(Buckets(sidebar.grouped)[b])

\* a rendered page in descending order whose two threads, updated at
\* different times, are in one bucket
C24_Witness ==
    /\ sidebar.rendered
    /\ Descending(sidebar.page)
    /\ \E b \in 1..4 :
          /\ Len(Buckets(sidebar.grouped)[b]) = 2
          /\ Buckets(sidebar.grouped)[b][1].updatedAt > Buckets(sidebar.grouped)[b][2].updatedAt

\* the cached message queries of a thread that have a page: those of
\* listThreadMessages without streamArgs
MessageQueries(threadId) ==
    {k \in 1..Len(localStore.queries) :
        /\ localStore.queries[k].args.threadId = threadId
        /\ localStore.queries[k].args.streamArgs = Undefined
        /\ "page" \in DOMAIN localStore.queries[k].value}

\* C25: the optimistic update of a send to a thread whose message query has
\* a cached page appends one message (role user, the prompt, a temporary
\* id) to that page and leaves every other cached query as it was.
C25_OptimisticAppendsOne ==
    [][\A args \in OptimisticArgs :
          (sendMessageOptimistic(args) /\ MessageQueries(args.threadId) # {}) =>
             \E k \in MessageQueries(args.threadId) :
                /\ Len(localStore'.queries) = Len(localStore.queries)
                /\ localStore'.queries[k].value.page =
                      Append(localStore.queries[k].value.page,
                             [_id |-> <<"optimistic", now>>, role |-> "user",
                              content |-> args.prompt])
                /\ \A j \in 1..Len(localStore.queries) :
                      j # k => localStore'.queries[j] = localStore.queries[j]]_vars

\* the user message of a send to the record's thread with the record's body
\* is in a message list of the agent
Persisted(row) ==
    \E a \in 1..Len(agentThreads) : \E k \in 1..Len(agentThreads[a]) :
        /\ agentThreads[a][k].role = "user"
        /\ tasks[agentThreads[a][k].task].threadId = row.threadId
        /\ tasks[agentThreads[a][k].task].prompt = row.body

\* C26: the user message of a send is persisted before its association
\* record is written: every record in the table has its user message.
C26_MessageBeforeRecord ==
    \A r \in 1..Len(messages) : Persisted(messages[r])

\* the uploads whose response has arrived
Completed(u) == promptBox.uploads[u].pc \in {"readAsDataURL", "done"}

\* C27: every identifier handed to onSend is the storage identifier of an
\* upload that has completed, and of a file that is in storage.
C27_OnlyStorageIdsSent ==
    \A s \in 1..Len(promptBox.sent) :
        \A k \in 1..Len(promptBox.sent[s].attachmentIds) :
            /\ promptBox.sent[s].attachmentIds[k][1] = "storage"
            /\ promptBox.sent[s].attachmentIds[k][2] \in 1..Len(storage.files)
            /\ \E u \in 1..Len(promptBox.uploads) :
                  /\ Completed(u)
                  /\ promptBox.uploads[u].storageId = promptBox.sent[s].attachmentIds[k]

\* a submit handed over an identifier while another upload was in progress
C27_Witness ==
    /\ \E s \in 1..Len(promptBox.sent) : promptBox.sent[s].attachmentIds # << >>
    /\ \E u \in 1..Len(promptBox.uploads) :
          promptBox.uploads[u].pc \in {"generateUploadUrl", "fetch", "response"}

\* the entries of the box are all uploaded, and there is one at least
AllUploaded ==
    /\ promptBox.attachments # << >>
    /\ \A k \in 1..Len(promptBox.attachments) : ~promptBox.attachments[k].isUploading

\* C28: a submit that empties a box of uploaded entries issues a
\* sendMessage whose attachmentIds are the ids of those entries, whatever
\* the text is.
C28_ClearedMeansSent ==
    [][\A input \in Inputs, messagePrefix \in Prefixes :
          (handleSubmit(input, messagePrefix) /\ AllUploaded) =>
             /\ promptBox'.attachments = << >>
             /\ Len(localStore'.requests) = Len(localStore.requests) + 1
             /\ localStore'.requests[Len(localStore'.requests)].args.attachmentIds =
                   [k \in 1..Len(promptBox.attachments) |-> promptBox.attachments[k].id]]_vars

\* a step in which upload u fails
Fails(u) == fetchFails(u) \/ generateUploadUrl(NoIdentity, u)

\* every started upload has completed or failed
Settled == \A u \in 1..Len(promptBox.uploads) : promptBox.uploads[u].pc \in {"readAsDataURL", "done", "failed"}

\* C30: a failed upload removes its own entry and no other, and once every
\* started upload has completed or failed no entry is marked as uploading.
C30_NoEntryLeftUploading ==
    [][/\ \A u \in 1..Len(promptBox.uploads) :
             Fails(u) =>
                promptBox'.attachments =
                   SelectSeq(promptBox.attachments, LAMBDA att : att.upload # u)
       /\ Settled' =>
             \A k \in 1..Len(promptBox'.attachments) : ~promptBox'.attachments[k].isUploading]_vars

=============================================================================
